---- MODULE Spec2Model ----
(***************************************************************************)
(* A model of PFERD/transform.py: path-rewrite rules ("Transforms"), the   *)
(* combinators that build them, and apply_transform, which applies one     *)
(* rule to a list of Transformable objects.                                *)
(*                                                                         *)
(* Strings are sequences of one-character strings.  A PurePath (POSIX      *)
(* flavour) is a record [root, parts]: root is "", "/" or "//" and parts   *)
(* are the name components below the root.  Optional[PurePath] is a path   *)
(* record or None; an exception leaving a call is the record               *)
(* [raise |-> <exception class>].                                          *)
(***************************************************************************)
EXTENDS Integers, Sequences, FiniteSets, TLC

RECURSIVE SplitFrom(_, _, _)
RECURSIVE JoinParts(_)
RECURSIVE fnmatchcase(_, _)
RECURSIVE SuffixMatches(_, _)
RECURSIVE FormatItems(_, _)
RECURSIVE Call(_, _)
RECURSIVE attempt_loop(_, _, _)
RECURSIVE do_loop(_, _, _)
RECURSIVE apply_loop(_, _, _, _, _)
RECURSIVE attempt_loop_last_wins(_, _, _)
RECURSIVE do_loop_skip_rejected(_, _, _)
RECURSIVE do_loop_stale_input(_, _, _)
RECURSIVE apply_loop_prepend(_, _, _, _, _)
RECURSIVE apply_loop_assign_always(_, _, _, _, _)

(***************************************************************************)
(* Strings and pathlib.PurePosixPath                                       *)
(***************************************************************************)
SEP == "/"

EmptyStr == <<>>

\* str.split("/") continued: cur is the segment being read, s the rest.
SplitFrom(s, cur, acc) ==
    IF s = <<>> THEN Append(acc, cur)
    ELSE IF Head(s) = SEP THEN SplitFrom(Tail(s), <<>>, Append(acc, cur))
    ELSE SplitFrom(Tail(s), Append(cur, Head(s)), acc)

Split(s) == SplitFrom(s, <<>>, <<>>)

\* The number of leading separators of s.
LeadingSeps(s) ==
    IF \A i \in 1..Len(s) : s[i] = SEP THEN Len(s)
    ELSE (CHOOSE i \in 1..Len(s) : s[i] # SEP /\ \A j \in 1..(i - 1) : s[j] = SEP) - 1

\* PurePath(s): exactly two leading separators give the root "//", any other
\* positive number the root "/"; empty and "." segments are dropped.
PurePath(s) ==
    LET n    == LeadingSeps(s)
        segs == Split(SubSeq(s, n + 1, Len(s)))
    IN  [root  |-> IF n = 0 THEN EmptyStr ELSE IF n = 2 THEN <<SEP, SEP>> ELSE <<SEP>>,
         parts |-> SelectSeq(segs, LAMBDA x : x # <<>> /\ x # <<".">>)]

JoinParts(parts) ==
    IF parts = <<>> THEN <<>>
    ELSE IF Len(parts) = 1 THEN parts[1]
    ELSE parts[1] \o <<SEP>> \o JoinParts(Tail(parts))

\* str(path)
Str(path) ==
    LET s == path.root \o JoinParts(path.parts)
    IN  IF s = <<>> THEN <<".">> ELSE s

\* path.name: the final component, "" when there is none.
Name(path) ==
    IF path.parts = <<>> THEN EmptyStr ELSE path.parts[Len(path.parts)]

\* path.parents, as a set: the proper ancestors of path, down to the bare root
\* (or PurePath(".") for a relative path).
Parents(path) ==
    { [root |-> path.root, parts |-> SubSeq(path.parts, 1, k)] :
        k \in 0..(Len(path.parts) - 1) }

\* path.relative_to(other), used only where other is in path.parents.
RelativeTo(path, other) ==
    [root  |-> EmptyStr,
     parts |-> SubSeq(path.parts, Len(other.parts) + 1, Len(path.parts))]

\* a / b for a relative b.
Join(a, b) == [root |-> a.root, parts |-> a.parts \o b.parts]

None == [none |-> TRUE]

Raise(exc) == [raise |-> exc]

IsRaise(v) == "raise" \in DOMAIN v

IsPath(v) == "parts" \in DOMAIN v

\* path.with_name(name)
WithName(path, name) ==
    IF Name(path) = EmptyStr THEN Raise("ValueError")
    ELSE IF \/ name = EmptyStr
            \/ name[Len(name)] = SEP
            \/ PurePath(name).root # EmptyStr
            \/ Len(PurePath(name).parts) # 1
         THEN Raise("ValueError")
    ELSE [root  |-> path.root,
          parts |-> Append(SubSeq(path.parts, 1, Len(path.parts) - 1), name)]

\* fnmatch.fnmatchcase(s, pat) for patterns of literals, "?" and "*".
fnmatchcase(s, pat) ==
    IF pat = <<>> THEN s = <<>>
    ELSE IF Head(pat) = "*"
         THEN fnmatchcase(s, Tail(pat)) \/ (s # <<>> /\ fnmatchcase(Tail(s), pat))
    ELSE /\ s # <<>>
         /\ (Head(pat) = "?" \/ Head(pat) = Head(s))
         /\ fnmatchcase(Tail(s), Tail(pat))

\* The path's components as match() sees them: the root counts as the first.
CParts(path) ==
    IF path.root = EmptyStr THEN path.parts ELSE <<path.root>> \o path.parts

\* zip(reversed(parts), reversed(pat_parts)): the components from the right.
SuffixMatches(parts, pats) ==
    IF parts = <<>> \/ pats = <<>> THEN TRUE
    ELSE /\ fnmatchcase(parts[Len(parts)], pats[Len(pats)])
         /\ SuffixMatches(SubSeq(parts, 1, Len(parts) - 1),
                          SubSeq(pats, 1, Len(pats) - 1))

Bool(b) == [bool |-> b]

\* path.match(pattern): Bool(TRUE), Bool(FALSE) or a raised
\* ValueError("empty pattern").
Match(path, pattern) ==
    LET pat == PurePath(pattern)
        pp  == CParts(pat)
        cp  == CParts(path)
    IN  IF pp = <<>> THEN Raise("ValueError")
        ELSE IF pat.root # EmptyStr /\ pat.root # path.root THEN Bool(FALSE)
        ELSE IF pat.root # EmptyStr
             THEN IF Len(pp) # Len(cp) THEN Bool(FALSE)
                  ELSE Bool(SuffixMatches(cp, Tail(pp)))
        ELSE IF Len(pp) > Len(cp) THEN Bool(FALSE)
        ELSE Bool(SuffixMatches(cp, pp))

(***************************************************************************)
(* Regular expressions and format templates                                *)
(*                                                                         *)
(* A regex argument is one of                                              *)
(*   [syntax |-> "malformed"]              a string re.compile rejects     *)
(*   [syntax |-> "literal", text |-> s]    the characters s, no group      *)
(*   [syntax |-> "prefix_group", text |-> s]   s, then one group matching  *)
(*                                             any characters              *)
(* A template is a sequence of items [lit |-> s], [field |-> k] ("{k}")    *)
(* or [stray |-> TRUE] (a single "{", which str.format rejects).           *)
(***************************************************************************)
\* utils.to_path: a str becomes a PurePath.
to_path(pathlike) == PurePath(pathlike)

\* utils.to_pattern: re.compile of a str; a malformed one raises re.error.
to_pattern(regex) ==
    IF regex.syntax = "malformed" THEN Raise("re.error") ELSE regex

IsPrefixOf(s, t) == Len(s) <= Len(t) /\ SubSeq(t, 1, Len(s)) = s

\* pattern.fullmatch(s): None, or the groups <<group(0)>> \o groups().
FullMatch(pattern, s) ==
    IF pattern.syntax = "literal"
    THEN IF s = pattern.text THEN [groups |-> <<s>>] ELSE None
    ELSE IF IsPrefixOf(pattern.text, s)
         THEN [groups |-> <<s, SubSeq(s, Len(pattern.text) + 1, Len(s))>>]
         ELSE None

\* target.format(*groups), item by item from the left: [text |-> s] or a
\* raised ValueError (stray brace) or IndexError (no such group).
FormatItems(items, groups) ==
    IF items = <<>> THEN [text |-> EmptyStr]
    ELSE LET it == Head(items) IN
         IF "stray" \in DOMAIN it THEN Raise("ValueError")
         ELSE IF "field" \in DOMAIN it /\ it.field >= Len(groups)
              THEN Raise("IndexError")
         ELSE LET rest == FormatItems(Tail(items), groups) IN
              IF IsRaise(rest) THEN rest
              ELSE [text |-> (IF "field" \in DOMAIN it THEN groups[it.field + 1]
                              ELSE it.lit) \o rest.text]

Format(target, groups) == FormatItems(target, groups)

(***************************************************************************)
(* Transforms.  A Transform value is the closure its constructor returns:  *)
(* a record of the constructor's name and the variables it captured.       *)
(***************************************************************************)
keep == [op |-> "keep"]

identity_lambda == [op |-> "lambda"]

attempt(args) == [op |-> "attempt", args |-> args]

\* A slip: the fallback is left out.
optionally_no_fallback(transform) == attempt(<<transform>>)

optionally(transform) == attempt(<<transform, identity_lambda>>)

do(args) == [op |-> "do", args |-> args]

\* pred is the callable: [true_on |-> S] returns True exactly on the paths
\* of S; [pattern |-> s] is glob's lambda path: path.match(s).
predicate(pred) == [op |-> "predicate", pred |-> pred]

glob(pattern) == predicate([pattern |-> pattern])

move_dir(source_dir, target_dir) ==
    [op |-> "move_dir", source_path |-> to_path(source_dir),
     target_path |-> to_path(target_dir)]

move(source, target) ==
    [op |-> "move", source_path |-> to_path(source),
     target_path |-> to_path(target)]

rename(source, target) == [op |-> "rename", source |-> source, target |-> target]

re_move(regex, target) == [op |-> "re_move", regex |-> regex, target |-> target]

re_rename(regex, target) == [op |-> "re_rename", regex |-> regex, target |-> target]

\* "if result:" -- a PurePath is always true, None is false.
Truthy(v) == IsPath(v)

Deepen(calls) == [i \in DOMAIN calls |-> [calls[i] EXCEPT !.depth = @ + 1]]

\* One invocation record per call of a sub-transform, in call order.
Invocation(transform, path, r) ==
    <<[depth |-> 1, transform |-> transform, path |-> path]>> \o Deepen(r.calls)

Returned(v) == [ret |-> v, calls |-> <<>>]

CallPred(pred, path) ==
    IF "true_on" \in DOMAIN pred THEN Bool(path \in pred.true_on)
    ELSE Match(path, pred.pattern)

apply_predicate(pred, path) ==
    LET b == CallPred(pred, path) IN
    IF IsRaise(b) THEN Returned(b)
    ELSE IF b.bool THEN Returned(path)
    ELSE Returned(None)

\* A slip: the directory itself counts as inside it.
make_child_nonstrict(source_path, target_path, path) ==
    IF source_path \in Parents(path) \/ source_path = path
    THEN Returned(Join(target_path, RelativeTo(path, source_path)))
    ELSE Returned(None)

make_child_of_target_dir(source_path, target_path, path) ==
    IF source_path \in Parents(path)
    THEN Returned(Join(target_path, RelativeTo(path, source_path)))
    ELSE Returned(None)

move_to_target(source_path, target_path, path) ==
    IF path = source_path THEN Returned(target_path) ELSE Returned(None)

rename_to_target_name(source, target, path) ==
    IF Name(path) = source THEN Returned(WithName(path, target))
    ELSE Returned(None)

move_if_match(regex, target, path) ==
    LET pattern == to_pattern(regex) IN
    IF IsRaise(pattern) THEN Returned(pattern)
    ELSE LET match == FullMatch(pattern, Str(path)) IN
         IF match = None THEN Returned(None)
         ELSE LET s == Format(target, match.groups) IN
              IF IsRaise(s) THEN Returned(s) ELSE Returned(PurePath(s.text))

rename_if_match(regex, target, path) ==
    LET pattern == to_pattern(regex) IN
    IF IsRaise(pattern) THEN Returned(pattern)
    ELSE LET match == FullMatch(pattern, Name(path)) IN
         IF match = None THEN Returned(None)
         ELSE LET s == Format(target, match.groups) IN
              IF IsRaise(s) THEN Returned(s) ELSE Returned(WithName(path, s.text))

\* A slip: the loop does not stop at the first success, the last one wins.
attempt_loop_last_wins(args, i, path) ==
    IF i > Len(args) THEN Returned(None)
    ELSE LET r    == Call(args[i], path)
             here == Invocation(args[i], path, r)
         IN  IF IsRaise(r.ret) THEN [ret |-> r.ret, calls |-> here]
             ELSE LET rest == attempt_loop_last_wins(args, i + 1, path)
                  IN  [ret   |-> IF rest.ret = None THEN r.ret ELSE rest.ret,
                       calls |-> here \o rest.calls]

\* attempt's loop from args[i] on.
attempt_loop(args, i, path) ==
    IF i > Len(args) THEN Returned(None)
    ELSE LET r    == Call(args[i], path)
             here == Invocation(args[i], path, r)
         IN  IF IsRaise(r.ret) \/ Truthy(r.ret) THEN [ret |-> r.ret, calls |-> here]
             ELSE LET rest == attempt_loop(args, i + 1, path)
                  IN  [ret |-> rest.ret, calls |-> here \o rest.calls]

apply_transforms_until_first_success(args, path) == attempt_loop(args, 1, path)

\* A slip: a rejecting rule is skipped instead of ending the chain.
do_loop_skip_rejected(args, i, current_result) ==
    IF i > Len(args) THEN Returned(current_result)
    ELSE LET r    == Call(args[i], current_result)
             here == Invocation(args[i], current_result, r)
         IN  IF IsRaise(r.ret) THEN [ret |-> r.ret, calls |-> here]
             ELSE LET rest == do_loop_skip_rejected(args, i + 1,
                                  IF Truthy(r.ret) THEN r.ret ELSE current_result)
                  IN  [ret |-> rest.ret, calls |-> here \o rest.calls]

\* A slip: current_result is never updated, every rule sees the first input.
do_loop_stale_input(args, i, current_result) ==
    IF i > Len(args) THEN Returned(current_result)
    ELSE LET r    == Call(args[i], current_result)
             here == Invocation(args[i], current_result, r)
         IN  IF IsRaise(r.ret) THEN [ret |-> r.ret, calls |-> here]
             ELSE IF Truthy(r.ret)
                  THEN LET rest == do_loop_stale_input(args, i + 1, current_result)
                       IN  [ret |-> rest.ret, calls |-> here \o rest.calls]
             ELSE [ret |-> None, calls |-> here]

\* do's loop from args[i] on.
do_loop(args, i, current_result) ==
    IF i > Len(args) THEN Returned(current_result)
    ELSE LET r    == Call(args[i], current_result)
             here == Invocation(args[i], current_result, r)
         IN  IF IsRaise(r.ret) THEN [ret |-> r.ret, calls |-> here]
             ELSE IF Truthy(r.ret)
                  THEN LET rest == do_loop(args, i + 1, r.ret)
                       IN  [ret |-> rest.ret, calls |-> here \o rest.calls]
             ELSE [ret |-> None, calls |-> here]

apply_transforms_if_all_succeed(args, path) == do_loop(args, 1, path)

\* transform(path): the returned value (a path, None or a raised exception)
\* and the invocations of sub-transforms it made.
Call(transform, path) ==
    CASE transform.op = "keep"      -> Returned(path)
      [] transform.op = "lambda"    -> Returned(path)
      [] transform.op = "attempt"   ->
            apply_transforms_until_first_success(transform.args, path)
      [] transform.op = "do"        ->
            apply_transforms_if_all_succeed(transform.args, path)
      [] transform.op = "predicate" -> apply_predicate(transform.pred, path)
      [] transform.op = "move_dir"  ->
            make_child_of_target_dir(transform.source_path, transform.target_path, path)
      [] transform.op = "move"      ->
            move_to_target(transform.source_path, transform.target_path, path)
      [] transform.op = "rename"    ->
            rename_to_target_name(transform.source, transform.target, path)
      [] transform.op = "re_move"   ->
            move_if_match(transform.regex, transform.target, path)
      [] transform.op = "re_rename" ->
            rename_if_match(transform.regex, transform.target, path)

(***************************************************************************)
(* apply_transform.  Transformables are objects: heap maps each object to  *)
(* its path attribute, a list holds object references.  The call's outcome *)
(* is its status, the list it returned, the objects' paths and the         *)
(* caller's list as the call leaves them.                                  *)
(***************************************************************************)
\* A slip: accepted items are put at the front of the result.
apply_loop_prepend(transform, transformables, i, result, heap) ==
    IF i > Len(transformables)
    THEN [status |-> "returned", result |-> result, heap |-> heap,
          transformables |-> transformables]
    ELSE LET transformable == transformables[i]
             new_path      == Call(transform, heap[transformable]).ret
         IN  IF IsRaise(new_path)
             THEN [status |-> "raised", result |-> <<>>, heap |-> heap,
                   transformables |-> transformables]
             ELSE IF Truthy(new_path)
                  THEN apply_loop_prepend(transform, transformables, i + 1,
                                          <<transformable>> \o result,
                                          [heap EXCEPT ![transformable] = new_path])
             ELSE apply_loop_prepend(transform, transformables, i + 1, result, heap)

\* A slip: the path is assigned before the test, so a rejected item's path
\* becomes None.
apply_loop_assign_always(transform, transformables, i, result, heap) ==
    IF i > Len(transformables)
    THEN [status |-> "returned", result |-> result, heap |-> heap,
          transformables |-> transformables]
    ELSE LET transformable == transformables[i]
             new_path      == Call(transform, heap[transformable]).ret
         IN  IF IsRaise(new_path)
             THEN [status |-> "raised", result |-> <<>>, heap |-> heap,
                   transformables |-> transformables]
             ELSE apply_loop_assign_always(transform, transformables, i + 1,
                      IF Truthy(new_path) THEN Append(result, transformable)
                      ELSE result,
                      [heap EXCEPT ![transformable] = new_path])

\* The for loop from transformables[i] on.  An exception raised by the
\* transform leaves the loop with the assignments made so far in place.
apply_loop(transform, transformables, i, result, heap) ==
    IF i > Len(transformables)
    THEN [status |-> "returned", result |-> result, heap |-> heap,
          transformables |-> transformables]
    ELSE LET transformable == transformables[i]
             new_path      == Call(transform, heap[transformable]).ret
         IN  IF IsRaise(new_path)
             THEN [status |-> "raised", result |-> <<>>, heap |-> heap,
                   transformables |-> transformables]
             ELSE IF Truthy(new_path)
                  THEN apply_loop(transform, transformables, i + 1,
                                  Append(result, transformable),
                                  [heap EXCEPT ![transformable] = new_path])
             ELSE apply_loop(transform, transformables, i + 1, result, heap)

apply_transform(transform, transformables, heap) ==
    apply_loop(transform, transformables, 1, <<>>, heap)

(***************************************************************************)
(* Bounds and the inputs the specifications draw from                      *)
(***************************************************************************)
\* The longest argument list given to attempt and do.
MaxArgs == 3

\* The longest list given to apply_transform.
MaxItems == 3

SeqsUpTo(S, n) == UNION { [1..k -> S] : k \in 0..n }

\* Path strings: ".", "a", "b", "a/b", "b/a", "a/a/b", "b/a/b", "b/ab", "/a/b".
PathStrings ==
    { <<".">>, <<"a">>, <<"b">>, <<"a", "/", "b">>, <<"b", "/", "a">>,
      <<"a", "/", "a", "/", "b">>, <<"b", "/", "a", "/", "b">>,
      <<"b", "/", "a", "b">>, <<"/", "a", "/", "b">> }

Paths == { PurePath(s) : s \in PathStrings }

PredArgs == { [true_on |-> {PurePath(<<"a">>), PurePath(<<"a", "/", "b">>)}],
              [true_on |-> {}] }

GlobArgs == { <<"*">>, <<"a", "/", "*">>, <<"/", "*", "/", "b">>, EmptyStr }

MoveSources == { <<"a">>, <<"a", "/", "b">> }

MoveTargets == { <<"b">>, <<"b", "/", "a">> }

MoveDirSources == { <<"a">>, <<".">>, <<"a", "/", "a">>, <<"/", "a">>, <<"/">> }

MoveDirTargets == { <<"b">>, <<"a", "/", "b">>, <<"/", "b">> }

RenameSources == { <<"a">>, <<"a", "b">>, <<"b">>, EmptyStr }

RenameTargets == { <<"b">>, <<"a", "b">>, EmptyStr, <<"a", "/", "b">> }

Regexes ==
    { [syntax |-> "malformed"],
      [syntax |-> "literal", text |-> <<"a", "/", "b">>],
      [syntax |-> "literal", text |-> <<"b">>],
      [syntax |-> "prefix_group", text |-> <<"a">>],
      [syntax |-> "prefix_group", text |-> EmptyStr] }

\* Templates: "b", "{1}/{0}", "{2}", "{0}" and "{".
Templates ==
    { << [lit |-> <<"b">>] >>,
      << [field |-> 1], [lit |-> <<"/">>], [field |-> 0] >>,
      << [field |-> 2] >>,
      << [field |-> 0] >>,
      << [stray |-> TRUE] >> }

\* The transforms handed to the combinators.
ArgTransforms ==
    { keep,
      move(<<"a">>, <<"b">>),
      move_dir(<<"a">>, <<"b">>),
      move_dir(<<"b">>, <<"a">>),
      rename(<<"b">>, <<"a">>),
      rename(EmptyStr, <<"b">>),
      predicate([true_on |-> {PurePath(<<"a">>), PurePath(<<"a", "/", "b">>)}]),
      re_move([syntax |-> "malformed"], << [lit |-> <<"b">>] >>),
      attempt(<<move(<<"a">>, <<"b">>), rename(<<"b">>, <<"a">>)>>) }

\* The Transformable objects of the caller.
Objects == { "x", "y", "z" }

\* The paths the objects start with: ".", "a", "b", "a/b".
ItemPaths ==
    { PurePath(s) : s \in { <<".">>, <<"a">>, <<"b">>, <<"a", "/", "b">> } }

\* The transforms handed to apply_transform.
ApplyTransforms ==
    { keep,
      move(<<"a">>, <<"b">>),
      move_dir(<<"a">>, <<"b">>),
      move_dir(<<".">>, <<"a">>),
      rename(<<"b">>, <<"a">>),
      rename(EmptyStr, <<"b">>),
      predicate([true_on |-> {PurePath(<<"a">>), PurePath(<<"a", "/", "b">>)}]),
      predicate([true_on |-> {}]),
      glob(<<"a", "/", "*">>),
      re_move([syntax |-> "malformed"], << [lit |-> <<"b">>] >>),
      re_rename([syntax |-> "prefix_group", text |-> <<"a">>],
                << [field |-> 1], [field |-> 0] >>),
      attempt(<<move(<<"a">>, <<"b">>), rename(<<"b">>, <<"a">>)>>),
      do(<<move_dir(<<"a">>, <<"b">>), rename(<<"b">>, <<"a">>)>>),
      optionally(move(<<"a">>, <<"b">>)) }

\* The rules pipelined in do(r1, r2).
PipeTransforms ==
    { keep,
      move(<<"a">>, <<"b">>),
      move_dir(<<"a">>, <<"b">>),
      move_dir(<<".">>, <<"a">>),
      rename(<<"b">>, <<"a">>),
      rename(EmptyStr, <<"b">>),
      predicate([true_on |-> {PurePath(<<"a">>), PurePath(<<"a", "/", "b">>)}]) }

\* The paths the pipelined objects start with: ".", "a", "b", "a/b".
PipePaths ==
    { PurePath(s) : s \in { <<".">>, <<"a">>, <<"b">>, <<"a", "/", "b">> } }

(***************************************************************************)
(* State                                                                   *)
(***************************************************************************)
VARIABLES
    made,            \* the constructor call the caller made: [fn, args]
    transform,       \* the Transform that call returned, or Unset
    path,            \* the argument of the last call transform(path)
    ret,             \* what that call returned or raised
    calls,           \* the sub-transform invocations that call made
    tf,              \* apply_transform: its transform argument
    transformables,  \* apply_transform: its list argument
    before,          \* the objects' paths when apply_transform was called
    heap,            \* the objects' paths now
    result,          \* the list apply_transform returned
    status,          \* "ready", "returned" or "raised"
    r1, r2,          \* pipelining: the two rules
    xs,              \* pipelining: the item list
    heap0,           \* pipelining: the items' paths before any call
    do_out,          \* apply_transform(do(r1, r2), xs)
    first_out,       \* apply_transform(r1, copy of xs)
    second_out       \* apply_transform(r2, first_out.result)

ruleVars == <<made, transform, path, ret, calls>>

applyVars == <<tf, transformables, before, heap, result, status>>

pipeVars == <<r1, r2, xs, heap0, do_out, first_out, second_out>>

vars == <<ruleVars, applyVars, pipeVars>>

Unset == [unset |-> TRUE]

RulesIdle ==
    /\ made = Unset /\ transform = Unset
    /\ path = Unset /\ ret = Unset /\ calls = <<>>

ApplyIdle ==
    /\ tf = Unset /\ transformables = <<>> /\ before = Unset
    /\ heap = Unset /\ result = <<>> /\ status = "idle"

PipeIdle ==
    /\ r1 = Unset /\ r2 = Unset /\ xs = <<>> /\ heap0 = Unset
    /\ do_out = Unset /\ first_out = Unset /\ second_out = Unset

(***************************************************************************)
(* Building a rule and calling it                                          *)
(***************************************************************************)
Init == RulesIdle /\ ApplyIdle /\ PipeIdle

Construct_keep ==
    /\ made = Unset
    /\ made' = [fn |-> "keep", args |-> <<>>]
    /\ transform' = keep
    /\ UNCHANGED <<path, ret, calls, applyVars, pipeVars>>

Construct_attempt ==
    /\ made = Unset
    /\ \E args \in SeqsUpTo(ArgTransforms, MaxArgs) :
          /\ made' = [fn |-> "attempt", args |-> <<args>>]
          /\ transform' = attempt(args)
    /\ UNCHANGED <<path, ret, calls, applyVars, pipeVars>>

Construct_optionally ==
    /\ made = Unset
    /\ \E t \in ArgTransforms :
          /\ made' = [fn |-> "optionally", args |-> <<t>>]
          /\ transform' = optionally(t)
    /\ UNCHANGED <<path, ret, calls, applyVars, pipeVars>>

Construct_do ==
    /\ made = Unset
    /\ \E args \in SeqsUpTo(ArgTransforms, MaxArgs) :
          /\ made' = [fn |-> "do", args |-> <<args>>]
          /\ transform' = do(args)
    /\ UNCHANGED <<path, ret, calls, applyVars, pipeVars>>

Construct_predicate ==
    /\ made = Unset
    /\ \E pred \in PredArgs :
          /\ made' = [fn |-> "predicate", args |-> <<pred>>]
          /\ transform' = predicate(pred)
    /\ UNCHANGED <<path, ret, calls, applyVars, pipeVars>>

Construct_glob ==
    /\ made = Unset
    /\ \E pattern \in GlobArgs :
          /\ made' = [fn |-> "glob", args |-> <<pattern>>]
          /\ transform' = glob(pattern)
    /\ UNCHANGED <<path, ret, calls, applyVars, pipeVars>>

Construct_move_dir ==
    /\ made = Unset
    /\ \E s \in MoveDirSources, t \in MoveDirTargets :
          /\ made' = [fn |-> "move_dir", args |-> <<s, t>>]
          /\ transform' = move_dir(s, t)
    /\ UNCHANGED <<path, ret, calls, applyVars, pipeVars>>

Construct_move ==
    /\ made = Unset
    /\ \E s \in MoveSources, t \in MoveTargets :
          /\ made' = [fn |-> "move", args |-> <<s, t>>]
          /\ transform' = move(s, t)
    /\ UNCHANGED <<path, ret, calls, applyVars, pipeVars>>

Construct_rename ==
    /\ made = Unset
    /\ \E s \in RenameSources, t \in RenameTargets :
          /\ made' = [fn |-> "rename", args |-> <<s, t>>]
          /\ transform' = rename(s, t)
    /\ UNCHANGED <<path, ret, calls, applyVars, pipeVars>>

Construct_re_move ==
    /\ made = Unset
    /\ \E r \in Regexes, t \in Templates :
          /\ made' = [fn |-> "re_move", args |-> <<r, t>>]
          /\ transform' = re_move(r, t)
    /\ UNCHANGED <<path, ret, calls, applyVars, pipeVars>>

Construct_re_rename ==
    /\ made = Unset
    /\ \E r \in Regexes, t \in Templates :
          /\ made' = [fn |-> "re_rename", args |-> <<r, t>>]
          /\ transform' = re_rename(r, t)
    /\ UNCHANGED <<path, ret, calls, applyVars, pipeVars>>

\* transform(p)
Invoke ==
    /\ transform # Unset
    /\ ~IsRaise(transform)
    /\ \E p \in Paths :
          LET r == Call(transform, p) IN
          /\ path' = p
          /\ ret' = r.ret
          /\ calls' = r.calls
    /\ UNCHANGED <<made, transform, applyVars, pipeVars>>

Next ==
    \/ Construct_keep
    \/ Construct_attempt
    \/ Construct_optionally
    \/ Construct_do
    \/ Construct_predicate
    \/ Construct_glob
    \/ Construct_move_dir
    \/ Construct_move
    \/ Construct_rename
    \/ Construct_re_move
    \/ Construct_re_rename
    \/ Invoke

Spec == Init /\ [][Next]_vars

(***************************************************************************)
(* apply_transform on a list of objects                                    *)
(***************************************************************************)
InitApply ==
    /\ RulesIdle /\ PipeIdle
    /\ tf \in ApplyTransforms
    /\ transformables \in SeqsUpTo(Objects, MaxItems)
    /\ heap \in [Objects -> ItemPaths]
    /\ before = heap
    /\ result = <<>>
    /\ status = "ready"

\* result = apply_transform(tf, transformables)
ApplyTransform ==
    /\ status = "ready"
    /\ LET out == apply_transform(tf, transformables, heap) IN
          /\ heap' = out.heap
          /\ result' = out.result
          /\ status' = out.status
          /\ transformables' = out.transformables
    /\ UNCHANGED <<tf, before, ruleVars, pipeVars>>

NextApply == ApplyTransform

SpecApply == InitApply /\ [][NextApply]_vars

(***************************************************************************)
(* apply_transform(do(r1, r2), xs) next to apply_transform(r2,             *)
(* apply_transform(r1, xs')) on an identical copy xs' of the objects       *)
(***************************************************************************)
InitPipe ==
    /\ RulesIdle /\ ApplyIdle
    /\ r1 \in PipeTransforms
    /\ r2 \in PipeTransforms
    /\ xs \in SeqsUpTo(Objects, MaxItems)
    /\ heap0 \in [Objects -> PipePaths]
    /\ do_out = Unset /\ first_out = Unset /\ second_out = Unset

ApplyDo ==
    /\ do_out = Unset
    /\ do_out' = apply_transform(do(<<r1, r2>>), xs, heap0)
    /\ UNCHANGED <<r1, r2, xs, heap0, first_out, second_out, ruleVars, applyVars>>

ApplyFirst ==
    /\ do_out # Unset
    /\ first_out = Unset
    /\ first_out' = apply_transform(r1, xs, heap0)
    /\ UNCHANGED <<r1, r2, xs, heap0, do_out, second_out, ruleVars, applyVars>>

ApplySecond ==
    /\ first_out # Unset
    /\ first_out.status = "returned"
    /\ second_out = Unset
    /\ second_out' = apply_transform(r2, first_out.result, first_out.heap)
    /\ UNCHANGED <<r1, r2, xs, heap0, do_out, first_out, ruleVars, applyVars>>

NextPipe == ApplyDo \/ ApplyFirst \/ ApplySecond

SpecPipe == InitPipe /\ [][NextPipe]_vars

(***************************************************************************)
(* Properties of the combinators and primitives (specification Spec)       *)
(***************************************************************************)
Called == ret # Unset

\* What a rule returns on a path, apart from the invocations it makes.
Out(t, p) == Call(t, p).ret

\* The invocations the called transform made itself, in call order.
TopCalls == SelectSeq(calls, LAMBDA c : c.depth = 1)

CalledOn(t, p) == [depth |-> 1, transform |-> t, path |-> p]

\* C2: attempt(r1, ..., rn) on a path p invokes r1, r2, ... in this order,
\* each on p itself; it returns what the first accepting rule returned and
\* invokes no rule after that one; when every rule rejects (also when there
\* is no rule) it has invoked them all and rejects.
C2_AttemptFirstSuccess ==
    (Called /\ made.fn = "attempt") =>
        LET args == made.args[1]
            n    == Len(args)
        IN  /\ \A k \in 1..n :
                 (Truthy(Out(args[k], path))
                    /\ \A j \in 1..(k - 1) : Out(args[j], path) = None)
                 => /\ ret = Out(args[k], path)
                    /\ TopCalls = [i \in 1..k |-> CalledOn(args[i], path)]
            /\ (\A k \in 1..n : Out(args[k], path) = None)
                 => /\ ret = None
                    /\ TopCalls = [i \in 1..n |-> CalledOn(args[i], path)]

\* attempt of three rules where the first rejects and the second accepts:
\* the third is never invoked.
C2_Witness ==
    /\ Called /\ made.fn = "attempt"
    /\ Len(made.args[1]) = 3
    /\ Out(made.args[1][1], path) = None
    /\ Truthy(Out(made.args[1][2], path))
    /\ Truthy(Out(made.args[1][3], path))
    /\ Out(made.args[1][3], path) # Out(made.args[1][2], path)
    /\ ret = Out(made.args[1][2], path)
    /\ Len(TopCalls) = 2

\* C3: do(r1, ..., rn) on a path p invokes r1 on p and each later rule on
\* the path the rule before it returned; the first rejection ends the chain:
\* do rejects and no later rule is invoked, however many rules accepted
\* before; when all accept, do returns the last rule's output; do(r) gives
\* what r gives on every path.
C3_DoPipeline ==
    (Called /\ made.fn = "do") =>
        LET args == made.args[1]
            n    == Len(args)
            m    == Len(TopCalls)
        IN  /\ m <= n
            /\ n >= 1 => m >= 1 /\ TopCalls[1].path = path
            /\ \A i \in 1..m : TopCalls[i].transform = args[i]
            /\ \A i \in 2..m :
                 /\ Truthy(Out(args[i - 1], TopCalls[i - 1].path))
                 /\ TopCalls[i].path = Out(args[i - 1], TopCalls[i - 1].path)
            /\ (m >= 1 /\ Out(args[m], TopCalls[m].path) = None) => ret = None
            /\ m < n => ~Truthy(Out(args[m], TopCalls[m].path))
            /\ (m = n /\ n >= 1 /\ Truthy(Out(args[n], TopCalls[n].path)))
                 => ret = Out(args[n], TopCalls[n].path)
            /\ n = 1 => ret = Out(args[1], path)

\* do of three rules where two accept, changing the path, and the third
\* rejects.
C3_Witness ==
    /\ Called /\ made.fn = "do"
    /\ Len(made.args[1]) = 3
    /\ Len(TopCalls) = 3
    /\ TopCalls[2].path # path
    /\ TopCalls[3].path # TopCalls[2].path
    /\ ret = None

\* C4: optionally(r) never rejects: on a path p it returns r's result when
\* r accepts p and p itself when r rejects p, which is what attempt(r, keep)
\* returns.
C4_OptionallyNeverRejects ==
    (Called /\ made.fn = "optionally") =>
        LET r == made.args[1] IN
        /\ ret # None
        /\ Truthy(Out(r, path)) => ret = Out(r, path)
        /\ Out(r, path) = None => ret = path
        /\ ret = Out(attempt(<<r, keep>>), path)

\* optionally(r) called on a path r rejects.
C4_Witness ==
    /\ Called /\ made.fn = "optionally"
    /\ Out(made.args[1], path) = None
    /\ ret = path

\* C5: applying a rule never raises: every call transform(path) returns a
\* path or None.
C5_ApplyingNeverRaises == Called => ~IsRaise(ret)

MalformedArgs ==
    /\ made # Unset
    /\ made.fn \in {"re_move", "re_rename"}
    /\ \/ made.args[1].syntax = "malformed"
       \/ \E i \in DOMAIN made.args[2] : "stray" \in DOMAIN made.args[2][i]

\* C6: re_move or re_rename given a malformed regex or template fails in the
\* constructor call: it returns no transform, and so no call of a transform
\* built from such arguments fails later.
C6_MalformedFailsAtConstruction ==
    MalformedArgs => (IsRaise(transform) /\ ~IsRaise(ret))

\* source is a strict ancestor of p: the same root, and source's components
\* are a proper prefix of p's.
StrictAncestor(source, p) ==
    /\ source.root = p.root
    /\ Len(source.parts) < Len(p.parts)
    /\ \A i \in 1..Len(source.parts) : source.parts[i] = p.parts[i]

\* C7: move_dir(source_dir, target_dir) accepts p iff source_dir is a strict
\* ancestor of p, and then returns target_dir followed by the components of
\* p below source_dir; otherwise it rejects.
C7_MoveDirStrictAncestor ==
    (Called /\ made.fn = "move_dir") =>
        LET source == PurePath(made.args[1])
            target == PurePath(made.args[2])
            below  == [i \in 1..(Len(path.parts) - Len(source.parts)) |->
                         path.parts[Len(source.parts) + i]]
        IN  IF StrictAncestor(source, path)
            THEN ret = [root |-> target.root, parts |-> target.parts \o below]
            ELSE ret = None

\* move_dir accepts a path two levels below a source_dir that is not "." and
\* keeps both components.
C7_Witness ==
    /\ Called /\ made.fn = "move_dir"
    /\ PurePath(made.args[1]).parts # <<>>
    /\ Len(path.parts) = Len(PurePath(made.args[1]).parts) + 2
    /\ Truthy(ret)
    /\ Len(ret.parts) = Len(PurePath(made.args[2]).parts) + 2

\* C8: rename(source_name, target_name) accepts p iff p's final component
\* equals source_name, and then returns p's parent components followed by
\* target_name; for every other path it rejects.
C8_RenameExactName ==
    (Called /\ made.fn = "rename") =>
        IF Name(path) = made.args[1]
        THEN ret = [root  |-> path.root,
                    parts |-> Append(SubSeq(path.parts, 1, Len(path.parts) - 1),
                                     made.args[2])]
        ELSE ret = None

(***************************************************************************)
(* Properties of apply_transform (specification SpecApply)                 *)
(***************************************************************************)
Range(s) == { s[i] : i \in DOMAIN s }

\* No object occurs twice in the list.
Distinct(s) == \A i, j \in DOMAIN s : s[i] = s[j] => i = j

\* The rule accepts the path the object had when apply_transform was called.
Accepted(o) == Truthy(Out(tf, before[o]))

\* The returned list is the sublist of accepted items, in input order, and
\* each returned item carries the rule's output for the path it had.
SurvivorsRelocated ==
    /\ result = SelectSeq(transformables, Accepted)
    /\ \A i \in DOMAIN result : heap[result[i]] = Out(tf, before[result[i]])

\* C1 as claimed: for every rule and every list of items, apply_transform
\* returns the accepted items in their input order, each with its path
\* replaced by the rule's output for its original path.
C1_AsClaimed == status = "returned" => SurvivorsRelocated

\* C1, amended: the same for every list in which no object occurs twice.
C1_DistinctItems ==
    (status = "returned" /\ Distinct(transformables)) => SurvivorsRelocated

\* Three distinct items of which the rule accepts the first and the third
\* and moves the first.
C1_Witness ==
    /\ status = "returned"
    /\ Len(transformables) = 3
    /\ Distinct(transformables)
    /\ result = <<transformables[1], transformables[3]>>
    /\ heap[transformables[1]] # before[transformables[1]]

\* C9: a call of apply_transform leaves the caller's list as it was and
\* changes no path but those of accepted items: an object outside the list
\* or rejected by the rule keeps its path; every returned item is an object
\* of the caller's list, so its new path shows through that list as well.
C9_Frame ==
    [][ status' # status =>
          /\ transformables' = transformables
          /\ DOMAIN heap' = DOMAIN heap
          /\ \A o \in DOMAIN heap :
                (o \notin Range(transformables) \/ ~Truthy(Out(tf, heap[o])))
                => heap'[o] = heap[o]
          /\ \A i \in DOMAIN result' :
                /\ result'[i] \in Range(transformables)
                /\ Truthy(heap'[result'[i]])
       ]_vars

\* A call that returned after dropping one item and moving another.
C9_Witness ==
    /\ status = "returned"
    /\ Len(result) < Len(transformables)
    /\ result # <<>>
    /\ \E i \in DOMAIN transformables : heap[transformables[i]] # before[transformables[i]]
    /\ \E i \in DOMAIN transformables :
          /\ ~Accepted(transformables[i])
          /\ heap[transformables[i]] = before[transformables[i]]

(***************************************************************************)
(* Pipelining (specification SpecPipe)                                     *)
(***************************************************************************)
BothDone ==
    /\ do_out # Unset /\ second_out # Unset
    /\ do_out.status = "returned" /\ second_out.status = "returned"

\* The two runs return the same items with the same paths in the same
\* order; an item neither returns keeps its original path in the first run
\* and in the second carries r1's output if r1 accepted it.
SameSurvivors ==
    /\ do_out.result = second_out.result
    /\ \A i \in DOMAIN do_out.result :
          do_out.heap[do_out.result[i]] = second_out.heap[do_out.result[i]]
    /\ \A o \in Range(xs) \ Range(do_out.result) :
          /\ do_out.heap[o] = heap0[o]
          /\ second_out.heap[o] = IF Truthy(Out(r1, heap0[o]))
                                  THEN Out(r1, heap0[o]) ELSE heap0[o]

\* C10 as claimed: for all rules r1, r2 and every list xs,
\* apply_transform(do(r1, r2), xs) and apply_transform(r2,
\* apply_transform(r1, xs)) on an identical copy return the same.
C10_AsClaimed == BothDone => SameSurvivors

\* C10, amended: the same for every list in which no object occurs twice.
C10_DistinctItems == (BothDone /\ Distinct(xs)) => SameSurvivors

\* Distinct items of which one passes both rules and is moved, and one is
\* accepted and moved by r1 and then rejected by r2.
C10_Witness ==
    /\ BothDone /\ Distinct(xs)
    /\ \E i \in DOMAIN do_out.result :
          do_out.heap[do_out.result[i]] # heap0[do_out.result[i]]
    /\ \E o \in Range(xs) \ Range(do_out.result) :
          second_out.heap[o] # heap0[o]

====
